---- MODULE Spec2Model ----
(***************************************************************************)
(* Model of src/main.go: the realtime CLI's protocol engine.               *)
(*                                                                         *)
(* Two flows of control share two bounded channels:                        *)
(*   - the reader goroutine of startReader (c.Read -> json.Unmarshal ->    *)
(*     events / errs),                                                     *)
(*   - the foreground flow of main (send user input, wait for the          *)
(*     acknowledgement, request a response, stream it, optional follow-up, *)
(*     drain errs).                                                        *)
(*                                                                         *)
(* Strings are sequences of tokens.  An argument payload such as           *)
(* {"a":3,"b":4} is the token sequence  { "a":3 , "b":4 }  so that         *)
(* splitting it into fragments, concatenating and parsing are real         *)
(* operations of the model.                                                *)
(***************************************************************************)
EXTENDS Integers, Sequences, FiniteSets, TLC

(***************************************************************************)
(* Bounds of the model.                                                    *)
(***************************************************************************)
\* frames the remote service delivers in one run (c.Read successes)
MaxFrames == 5
\* user turns started in one run
MaxTurns == 2
\* capacity of the events and errs channels; the program uses 128
\* (main.go:139-140), the model a small capacity with the same blocking rule
ChanCap == 2

(***************************************************************************)
(* Tokens of argument payloads.                                            *)
(***************************************************************************)
LB == "{"
RB == "}"
CM == ","
A3 == "\"a\":3"
B4 == "\"b\":4"

FieldToks == {A3, B4}

FieldKey(tok) == IF tok = A3 THEN "a" ELSE "b"

FieldNum(tok) == IF tok = A3 THEN 3 ELSE 4

\* the payloads used by the scenarios
ArgsFull == <<LB, A3, CM, B4, RB>>
ArgsNoB == <<LB, A3, RB>>

\* tool schema advertised in session.update: "required": ["a", "b"]
ToolRequired == {"a", "b"}

(***************************************************************************)
(* Events: map[string]any decoded from one frame.  Only the keys the       *)
(* program reads are kept.  A key read with `v, ok := evt[k].(string)`     *)
(* keeps its ok flag; a key read with `v, _ :=` is its zero value when     *)
(* absent or not a string.                                                 *)
(***************************************************************************)
NoStr == [ok |-> FALSE, s |-> <<>>]

Str(s) == [ok |-> TRUE, s |-> s]

Evt(t, d, c, a, e) == [type |-> t, delta |-> d, call_id |-> c, arguments |-> a, error |-> e]

EvAck == Evt("conversation.item.created", NoStr, "", <<>>, "")
EvText(s) == Evt("response.text.delta", Str(s), "", <<>>, "")
EvTextNoStr == Evt("response.text.delta", NoStr, "", <<>>, "")
EvArgDelta(c, s) == Evt("response.function_call_arguments.delta", Str(s), c, <<>>, "")
EvArgsDone(c, a) == Evt("response.function_call_arguments.done", NoStr, c, a, "")
EvTextDone == Evt("response.text.done", NoStr, "", <<>>, "")
EvRespDone == Evt("response.done", NoStr, "", <<>>, "")
EvError == Evt("error", NoStr, "", <<>>, "invalid_request")
EvUnknown == Evt("session.updated", NoStr, "", <<>>, "")

\* The remote service names, in a conversation.item.created event, the item it
\* acknowledges: here the n-th user message or the n-th function_call_output of
\* the session.  The program reads no key of that event but "type".
UserItem(n) == <<"message", n>>
OutputItem(n) == <<"function_call_output", n>>

EvItemCreated(item) ==
    [type |-> "conversation.item.created", delta |-> NoStr, call_id |-> "",
     arguments |-> <<>>, error |-> "", item |-> item]

\* a raw frame: JSON text of an event, or bytes that are not JSON
Frame(e) == [json |-> TRUE, obj |-> e]
BadFrame == [json |-> FALSE, obj |-> EvUnknown]

\* json.Unmarshal(data, &evt)  (main.go:160-161)
Unmarshal(frame) == [err |-> ~frame.json, evt |-> frame.obj]

\* json.Marshal(evt): the keys of the map in sorted order with their values
MarshalEvent(evt) ==
    <<
      <<"arguments", evt.arguments>>,
      <<"call_id", evt.call_id>>,
      <<"delta", evt.delta>>,
      <<"error", evt.error>>,
      <<"type", evt.type>>
    >>

(***************************************************************************)
(* Errors, by the message the program formats.                             *)
(***************************************************************************)
NoErr == [msg |-> "", detail |-> <<>>]
ErrTimeoutWait == [msg |-> "timeout waiting for conversation.item.created", detail |-> <<>>]
ErrClosedWait == [msg |-> "events channel closed while waiting for conversation.item.created", detail |-> <<>>]
\* a slip: the payload is left out of the error
ErrServer_NoPayload(evt) == [msg |-> "server error", detail |-> <<>>]

ErrServer(evt) == [msg |-> "server error", detail |-> MarshalEvent(evt)]
ErrTimeoutStream == [msg |-> "stream timeout", detail |-> <<>>]
\* a slip: the closed channel is reported as a timeout
ErrClosedStream_AsTimeout == [msg |-> "stream timeout", detail |-> <<>>]

ErrClosedStream == [msg |-> "events channel closed during stream", detail |-> <<>>]
ErrBadArgs == [msg |-> "bad function args", detail |-> <<>>]
ErrWrite == [msg |-> "write error", detail |-> <<>>]
ErrDecode == [msg |-> "reader json unmarshal failed", detail |-> <<>>]
ErrRead == [msg |-> "read failed", detail |-> <<>>]
ErrCtx == [msg |-> "context canceled", detail |-> <<>>]
ErrReader(e) == [msg |-> "reader error", detail |-> <<e.msg>>]
ErrStdin == [msg |-> "failed to read the input", detail |-> <<>>]

(***************************************************************************)
(* Outbound messages.                                                      *)
(***************************************************************************)
Msg(t, i, c, b) == [type |-> t, item |-> i, call_id |-> c, body |-> b]

\* sendUserInput
UserItemMsg(text) == Msg("conversation.item.create", "message", "", text)
\* requestTextResponse
ResponseCreateMsg == Msg("response.create", "", "", <<"Provide a detailed response.">>)
\* a slip: every output is addressed to the same call
FunctionOutputMsg_OneCall(callID, out) == Msg("conversation.item.create", "function_call_output", "call_1", out)

\* sendFunctionOutput
FunctionOutputMsg(callID, out) == Msg("conversation.item.create", "function_call_output", callID, out)

(***************************************************************************)
(* The multiply tool.                                                      *)
(***************************************************************************)
\* a JSON object over the tokens: { } or { field (, field)* }
IsJSONObject(s) ==
    /\ Len(s) >= 2
    /\ s[1] = LB
    /\ s[Len(s)] = RB
    /\ \/ Len(s) = 2
       \/ /\ Len(s) % 2 = 1
          /\ \A i \in 2..(Len(s) - 1) :
                IF i % 2 = 0 THEN s[i] \in FieldToks ELSE s[i] = CM

\* value of the last field with key k, 0 (the zero value) when there is none
FieldValue(s, k) ==
    LET at == {i \in 1..Len(s) : s[i] \in FieldToks /\ FieldKey(s[i]) = k}
    IN  IF at = {} THEN 0
        ELSE FieldNum(s[CHOOSE i \in at : \A j \in at : j <= i])

\* a slip: the error of json.Unmarshal is not looked at
UnmarshalArgs_Lenient(s) == [err |-> FALSE, A |-> FieldValue(s, "a"), B |-> FieldValue(s, "b")]

\* json.Unmarshal([]byte(argsJSON), &args) into struct{A, B float64}
UnmarshalArgs(s) ==
    IF IsJSONObject(s)
    THEN [err |-> FALSE, A |-> FieldValue(s, "a"), B |-> FieldValue(s, "b")]
    ELSE [err |-> TRUE, A |-> 0, B |-> 0]

multiply(a, b) == a * b

\* fmt.Sprintf(`{"result": %g}`, result)
FormatResult(result) == <<"{\"result\": ", ToString(result), "}">>

(***************************************************************************)
(* waitForEventTypeFromChan: one received event.                           *)
(***************************************************************************)
\* a slip: an event of any other type than the expected one is an error
WaitHandle_Strict(evt, expectedEventType) ==
    IF evt.type = expectedEventType THEN [ret |-> "ok", err |-> NoErr]
    ELSE [ret |-> "err", err |-> ErrServer(evt)]

\* the outcome of one loop iteration: "continue", "ok" (return nil) or "err"
WaitHandle(evt, expectedEventType) ==
    IF evt.type = "error" THEN [ret |-> "err", err |-> ErrServer(evt)]
    ELSE IF evt.type = expectedEventType THEN [ret |-> "ok", err |-> NoErr]
    ELSE [ret |-> "continue", err |-> NoErr]

(***************************************************************************)
(* streamAssistantTextFromChan: the locals of one response cycle and the   *)
(* handling of one received event.                                         *)
(***************************************************************************)
EmptyBuf == [c \in {} |-> <<>>]

\* var full string; needFollowUp, printedWithNoTool := false, false; argBuf := map{}
\* argsJSON is the local of the arguments.done case; stdout is what the call printed
FreshCycle == [full |-> <<>>, needFollowUp |-> FALSE, printedWithNoTool |-> FALSE,
               argBuf |-> EmptyBuf, argsJSON |-> <<>>, stdout |-> <<>>]

\* a slip: the delta is put in front of the text
AppendText_Prepend(full, d) == d \o full

\* full += d
AppendText(full, d) == full \o d

\* fmt.Print("Chatbot> ") once, then fmt.Print(d)
PrintDelta(loc, d) ==
    IF loc.printedWithNoTool THEN loc.stdout \o d
    ELSE loc.stdout \o <<"Chatbot> ">> \o d

\* case "response.text.delta"
OnTextDelta(loc, evt) ==
    IF evt.delta.ok
    THEN [loc EXCEPT !.full = AppendText(loc.full, evt.delta.s),
                     !.stdout = PrintDelta(loc, evt.delta.s),
                     !.printedWithNoTool = TRUE]
    ELSE loc

\* a slip: the delta replaces the buffer instead of extending it
BufWrite_Overwrite(argBuf, callID, delta) ==
    [c \in (DOMAIN argBuf) \cup {callID} |-> IF c = callID THEN delta ELSE argBuf[c]]

\* a slip: one builder shared by all call ids
BufWrite_Shared(argBuf, callID, delta) ==
    [c \in (DOMAIN argBuf) \cup {callID} |->
        (IF c \in DOMAIN argBuf THEN argBuf[c] ELSE <<>>) \o delta]

\* buf := argBuf[callID]; if buf == nil { new }; buf.WriteString(delta)
BufWrite(argBuf, callID, delta) ==
    [c \in (DOMAIN argBuf) \cup {callID} |->
        IF c = callID
        THEN (IF callID \in DOMAIN argBuf THEN argBuf[callID] ELSE <<>>) \o delta
        ELSE argBuf[c]]

\* case "response.function_call_arguments.delta"
OnArgDelta(loc, evt) ==
    IF evt.call_id = "" \/ evt.delta.s = <<>>
    THEN loc
    ELSE [loc EXCEPT !.argBuf = BufWrite(loc.argBuf, evt.call_id, evt.delta.s)]

\* a slip: the buffer is preferred to the value on the event
ResolveArgs_PreferBuffer(argBuf, evt) ==
    IF evt.call_id \in DOMAIN argBuf THEN argBuf[evt.call_id]
    ELSE evt.arguments

\* argsJSON from the event, else from the buffer of its call id
ResolveArgs(argBuf, evt) ==
    IF evt.arguments # <<>> THEN evt.arguments
    ELSE IF evt.call_id \in DOMAIN argBuf THEN argBuf[evt.call_id]
    ELSE <<>>

\* a slip: the entry is kept after the call was dispatched
BufDelete_Keep(argBuf, callID) == argBuf

\* delete(argBuf, callID)
BufDelete(argBuf, callID) == [c \in (DOMAIN argBuf) \ {callID} |-> argBuf[c]]

\* the function_call_output built for a completed call
ToolOutput(callID, argsJSON) ==
    LET args == UnmarshalArgs(argsJSON)
    IN  FunctionOutputMsg(callID, FormatResult(multiply(args.A, args.B)))

\* one response cycle event -> [loc, ret, err, out]; sendOK: whether c.Write succeeds
StreamHandle(loc, evt, sendOK) ==
    LET Go(l) == [loc |-> l, ret |-> "continue", err |-> NoErr, out |-> <<>>]
        Fail(e) == [loc |-> loc, ret |-> "err", err |-> e, out |-> <<>>]
    IN
    IF evt.type = "error" THEN Fail(ErrServer(evt))
    ELSE IF evt.type = "response.text.delta" THEN Go(OnTextDelta(loc, evt))
    ELSE IF evt.type = "response.function_call_arguments.delta" THEN Go(OnArgDelta(loc, evt))
    ELSE IF evt.type = "response.function_call_arguments.done" THEN
        LET argsJSON == ResolveArgs(loc.argBuf, evt)
            FailAt(e) == [loc |-> [loc EXCEPT !.argsJSON = argsJSON], ret |-> "err",
                          err |-> e, out |-> <<>>]
        IN  IF UnmarshalArgs(argsJSON).err THEN FailAt(ErrBadArgs)
            ELSE IF ~sendOK THEN FailAt(ErrWrite)
            ELSE [loc |-> [loc EXCEPT !.argBuf = BufDelete(loc.argBuf, evt.call_id),
                                      !.argsJSON = argsJSON,
                                      !.needFollowUp = TRUE],
                  ret |-> "continue", err |-> NoErr,
                  out |-> <<ToolOutput(evt.call_id, argsJSON)>>]
    ELSE IF evt.type \in {"response.text.done", "response.done"} THEN
        [loc |-> [loc EXCEPT !.stdout = IF loc.printedWithNoTool
                                        THEN loc.stdout \o <<"\n">> ELSE loc.stdout],
         ret |-> "ok", err |-> NoErr, out |-> <<>>]
    ELSE Go(loc)

(***************************************************************************)
(* What the remote service and the user may send.                          *)
(***************************************************************************)
CallIds == {"call_1", "call_2"}

Inputs == {<<"hi">>}

MenuText ==
    {Frame(EvAck), Frame(EvText(<<"H">>)), Frame(EvText(<<"i">>)), Frame(EvTextNoStr),
     Frame(EvUnknown), Frame(EvTextDone)}

MenuTool ==
    {Frame(EvAck), Frame(EvArgDelta("call_1", <<LB, A3, CM>>)),
     Frame(EvArgDelta("call_1", <<B4, RB>>)), Frame(EvArgsDone("call_1", <<>>)),
     Frame(EvArgsDone("call_1", ArgsFull)), Frame(EvText(<<"H">>)), Frame(EvRespDone)}

MenuCalls ==
    {Frame(EvAck), Frame(EvArgDelta("call_1", <<LB>>)), Frame(EvArgDelta("call_2", <<LB>>)),
     Frame(EvArgDelta("call_2", <<RB>>)), Frame(EvArgDelta("", <<RB>>)),
     Frame(EvArgDelta("call_1", <<>>))}

MenuFail ==
    {Frame(EvAck), BadFrame, Frame(EvError), Frame(EvText(<<"H">>)),
     Frame(EvArgsDone("call_1", ArgsNoB)), Frame(EvRespDone)}

MenuOrder ==
    {Frame(EvAck), Frame(EvArgDelta("call_1", <<LB, RB>>)),
     Frame(EvArgDelta("call_2", ArgsFull)), Frame(EvArgsDone("call_1", <<>>)),
     Frame(EvArgsDone("call_2", <<>>))}

MenuLate ==
    {Frame(EvAck), Frame(EvItemCreated(OutputItem(1))),
     Frame(EvTextDone), Frame(EvArgsDone("call_1", ArgsFull)), Frame(EvRespDone)}

Menus == {MenuText, MenuTool, MenuCalls, MenuFail, MenuOrder, MenuLate}

(***************************************************************************)
(* State.                                                                  *)
(***************************************************************************)
VARIABLES
    menu,           \* the frames the remote service sends in this run
    nframes,        \* frames read so far
    ctxCancelled,   \* sessionCtx cancelled (deferred cancelSession)
    rpc,            \* reader goroutine: "select", "read", "deliver", "report",
                    \* "closeErrs", "closeEvents", "done"; "dead" after os.Exit
    rframe,         \* the frame c.Read returned
    rerr,           \* the error the reader is about to report
    events,         \* the events channel
    errs,           \* the errs channel
    eventsClosed,
    errsClosed,
    fpc,            \* main: "prompt", "waitAck", "request1", "stream1", "request2",
                    \* "stream2", "drain", "exited", "fatal"
    turns,          \* user turns started
    sent,           \* messages written to the connection, in order
    loc,            \* locals of the current streamAssistantTextFromChan call
    ferr,           \* the error main died with (log.Fatal)
    cyc,            \* history: events received by the current response cycle
    turnStart,      \* history: Len(sent) when the current turn started
    acked,          \* history: an item-created event was received in this turn
    decodeFails,    \* history: decode errors the reader has reported
    enqAfterFail,   \* history: events enqueued after a decode error was reported
    pending,        \* history: the well-formed frames read and not yet dequeued,
                    \* in the order c.Read returned them
    respOpen        \* history: a response.create was sent and no response.done
                    \* has been dequeued since

vars == <<menu, nframes, ctxCancelled, rpc, rframe, rerr, events, errs, eventsClosed,
          errsClosed, fpc, turns, sent, loc, ferr, cyc, turnStart, acked,
          decodeFails, enqAfterFail, pending, respOpen>>

\* the reader goroutine's own state, and the two channels
readerVars == <<nframes, rpc, rframe, rerr, decodeFails, enqAfterFail>>
chanVars == <<events, errs, eventsClosed, errsClosed>>

\* addMultipleToTools: the session.update sent before the first prompt
SessionUpdateMsg == Msg("session.update", "multiply", "", <<"required", "a", "b">>)

Init ==
    /\ menu \in Menus
    /\ nframes = 0
    /\ ctxCancelled = FALSE
    /\ rpc = "select"
    /\ rframe = BadFrame
    /\ rerr = NoErr
    /\ events = <<>>
    /\ errs = <<>>
    /\ eventsClosed = FALSE
    /\ errsClosed = FALSE
    /\ fpc = "prompt"
    /\ turns = 0
    /\ sent = <<SessionUpdateMsg>>
    /\ loc = FreshCycle
    /\ ferr = NoErr
    /\ cyc = <<>>
    /\ turnStart = 1
    /\ acked = FALSE
    /\ decodeFails = 0
    /\ enqAfterFail = 0
    /\ pending = <<>>
    /\ respOpen = FALSE

(***************************************************************************)
(* The reader goroutine (startReader).                                     *)
(***************************************************************************)
\* select { case <-ctx.Done(): ...; default: }
ReaderSelect ==
    /\ rpc = "select"
    /\ IF ctxCancelled
       THEN rpc' = "report" /\ rerr' = ErrCtx
       ELSE rpc' = "read" /\ rerr' = rerr
    /\ UNCHANGED <<menu, nframes, ctxCancelled, rframe, decodeFails, enqAfterFail>>
    /\ UNCHANGED chanVars
    /\ UNCHANGED <<fpc, turns, sent, loc, ferr, cyc, turnStart, acked, pending, respOpen>>

\* c.Read returns a frame
ReaderRead ==
    /\ rpc = "read"
    /\ ~ctxCancelled
    /\ nframes < MaxFrames
    /\ \E f \in menu : rframe' = f
    /\ nframes' = nframes + 1
    /\ rpc' = "deliver"
    /\ UNCHANGED <<menu, ctxCancelled, rerr, decodeFails, enqAfterFail>>
    /\ UNCHANGED chanVars
    /\ pending' = IF rframe'.json THEN Append(pending, Unmarshal(rframe').evt) ELSE pending
    /\ UNCHANGED <<fpc, turns, sent, loc, ferr, cyc, turnStart, acked, respOpen>>

\* c.Read returns an error: the connection failed, or the context was cancelled
ReaderReadFail ==
    /\ rpc = "read"
    /\ rerr' = IF ctxCancelled THEN ErrCtx ELSE ErrRead
    /\ rpc' = "report"
    /\ UNCHANGED <<menu, nframes, ctxCancelled, rframe, decodeFails, enqAfterFail>>
    /\ UNCHANGED chanVars
    /\ UNCHANGED <<fpc, turns, sent, loc, ferr, cyc, turnStart, acked, pending, respOpen>>

\* errs <- err; return
ReaderReport ==
    /\ rpc = "report"
    /\ Len(errs) < ChanCap
    /\ errs' = Append(errs, rerr)
    /\ rpc' = "closeErrs"
    /\ UNCHANGED <<menu, nframes, ctxCancelled, rframe, rerr, decodeFails, enqAfterFail>>
    /\ UNCHANGED <<events, eventsClosed, errsClosed>>
    /\ UNCHANGED <<fpc, turns, sent, loc, ferr, cyc, turnStart, acked, pending, respOpen>>

\* a slip: return instead of continue
AfterDecodeFail_Return == "closeErrs"

\* where the reader goes after reporting a decode error: continue
AfterDecodeFail == "select"

\* json.Unmarshal fails: errs <- decode error; continue
ReaderDecodeFail ==
    /\ rpc = "deliver"
    /\ Unmarshal(rframe).err
    /\ Len(errs) < ChanCap
    /\ errs' = Append(errs, ErrDecode)
    /\ rpc' = AfterDecodeFail
    /\ decodeFails' = decodeFails + 1
    /\ UNCHANGED <<menu, nframes, ctxCancelled, rframe, rerr, enqAfterFail>>
    /\ UNCHANGED <<events, eventsClosed, errsClosed>>
    /\ UNCHANGED <<fpc, turns, sent, loc, ferr, cyc, turnStart, acked, pending, respOpen>>

\* a slip: a non-blocking send that drops the event when the channel is full
ReaderEnqueue_DropWhenFull ==
    /\ rpc = "deliver"
    /\ ~Unmarshal(rframe).err
    /\ events' = IF Len(events) < ChanCap
                 THEN Append(events, Unmarshal(rframe).evt) ELSE events
    /\ rpc' = "select"
    /\ enqAfterFail' = IF decodeFails > 0 THEN enqAfterFail + 1 ELSE enqAfterFail
    /\ UNCHANGED <<menu, nframes, ctxCancelled, rframe, rerr, decodeFails>>
    /\ UNCHANGED <<errs, eventsClosed, errsClosed>>
    /\ UNCHANGED <<fpc, turns, sent, loc, ferr, cyc, turnStart, acked, pending, respOpen>>

\* events <- evt
ReaderEnqueue ==
    /\ rpc = "deliver"
    /\ ~Unmarshal(rframe).err
    /\ Len(events) < ChanCap
    /\ events' = Append(events, Unmarshal(rframe).evt)
    /\ rpc' = "select"
    /\ enqAfterFail' = IF decodeFails > 0 THEN enqAfterFail + 1 ELSE enqAfterFail
    /\ UNCHANGED <<menu, nframes, ctxCancelled, rframe, rerr, decodeFails>>
    /\ UNCHANGED <<errs, eventsClosed, errsClosed>>
    /\ UNCHANGED <<fpc, turns, sent, loc, ferr, cyc, turnStart, acked, pending, respOpen>>

\* defer close(errs) runs first, defer close(events) second
ReaderCloseErrs ==
    /\ rpc = "closeErrs"
    /\ errsClosed' = TRUE
    /\ rpc' = "closeEvents"
    /\ UNCHANGED <<menu, nframes, ctxCancelled, rframe, rerr, decodeFails, enqAfterFail>>
    /\ UNCHANGED <<events, errs, eventsClosed>>
    /\ UNCHANGED <<fpc, turns, sent, loc, ferr, cyc, turnStart, acked, pending, respOpen>>

ReaderCloseEvents ==
    /\ rpc = "closeEvents"
    /\ eventsClosed' = TRUE
    /\ rpc' = "done"
    /\ UNCHANGED <<menu, nframes, ctxCancelled, rframe, rerr, decodeFails, enqAfterFail>>
    /\ UNCHANGED <<events, errs, errsClosed>>
    /\ UNCHANGED <<fpc, turns, sent, loc, ferr, cyc, turnStart, acked, pending, respOpen>>

Reader ==
    \/ ReaderSelect
    \/ ReaderRead
    \/ ReaderReadFail
    \/ ReaderReport
    \/ ReaderDecodeFail
    \/ ReaderEnqueue
    \/ ReaderCloseErrs
    \/ ReaderCloseEvents

(***************************************************************************)
(* The foreground flow (main).                                             *)
(***************************************************************************)
AckType == "conversation.item.created"

Waiting == {"waitAck", "stream1", "stream2"}
Streaming == {"stream1", "stream2"}

\* a slip: the error is logged and the loop goes on to the next prompt
Fatal_Continue(e) ==
    /\ fpc' = "prompt"
    /\ ferr' = e
    /\ UNCHANGED <<nframes, rpc, rframe, rerr, decodeFails, enqAfterFail>>
    /\ UNCHANGED <<events, errs, eventsClosed, errsClosed>>
    /\ UNCHANGED <<pending, respOpen>>

\* log.Fatal(err): os.Exit(1).  The process is gone, and with it the reader
\* goroutine and both channels; what was written to the connection and to the
\* terminal, and the error logged, remain.
Fatal(e) ==
    /\ fpc' = "fatal"
    /\ ferr' = e
    /\ rpc' = "dead"
    /\ rframe' = BadFrame
    /\ rerr' = NoErr
    /\ nframes' = 0
    /\ decodeFails' = 0
    /\ enqAfterFail' = 0
    /\ events' = <<>>
    /\ errs' = <<>>
    /\ eventsClosed' = FALSE
    /\ errsClosed' = FALSE
    /\ pending' = <<>>
    /\ respOpen' = FALSE

\* a slip: the follow-up flag is ignored
AfterStream_NoFollowUp(pc, needFollowUp) == "drain"

\* where main goes after a response cycle returned without error
AfterStream(pc, needFollowUp) ==
    IF pc = "stream1" /\ needFollowUp THEN "request2" ELSE "drain"

\* reader.ReadString + sendUserInput
UserInput ==
    /\ fpc = "prompt"
    /\ turns < MaxTurns
    /\ turns' = turns + 1
    /\ turnStart' = Len(sent)
    /\ acked' = FALSE
    /\ \E text \in Inputs, sendOK \in BOOLEAN :
          IF sendOK
          THEN /\ sent' = Append(sent, UserItemMsg(text))
               /\ fpc' = "waitAck"
               /\ ferr' = ferr
               /\ UNCHANGED readerVars
               /\ UNCHANGED chanVars
               /\ UNCHANGED <<pending, respOpen>>
          ELSE /\ sent' = sent
               /\ Fatal(ErrWrite)
    /\ UNCHANGED <<menu, ctxCancelled, loc, cyc>>

\* the user types "exit": main returns, the deferred cancelSession runs
UserExit ==
    /\ fpc = "prompt"
    /\ fpc' = "exited"
    /\ ctxCancelled' = TRUE
    /\ UNCHANGED <<menu, turns, sent, loc, ferr, cyc, turnStart, acked, pending, respOpen>>
    /\ UNCHANGED readerVars
    /\ UNCHANGED chanVars

\* reader.ReadString fails
StdinFail ==
    /\ fpc = "prompt"
    /\ Fatal(ErrStdin)
    /\ UNCHANGED <<menu, ctxCancelled, turns, sent, loc, cyc, turnStart, acked>>

\* waitForEventTypeFromChan: case evt, ok := <-events with ok
WaitRecv ==
    /\ fpc = "waitAck"
    /\ events # <<>>
    /\ LET r == WaitHandle(Head(events), AckType)
       IN  IF r.ret = "err"
           THEN Fatal(r.err)
           ELSE /\ events' = Tail(events)
                /\ fpc' = IF r.ret = "ok" THEN "request1" ELSE fpc
                /\ ferr' = ferr
                /\ pending' = Tail(pending)
                /\ respOpen' = (respOpen /\ Head(events).type # "response.done")
                /\ UNCHANGED readerVars
                /\ UNCHANGED <<errs, eventsClosed, errsClosed>>
    /\ acked' = (acked \/ Head(events).type = AckType)
    /\ UNCHANGED <<menu, ctxCancelled, turns, sent, loc, cyc, turnStart>>

\* waitForEventTypeFromChan: the channel is closed and drained
WaitClosed ==
    /\ fpc = "waitAck"
    /\ events = <<>>
    /\ eventsClosed
    /\ Fatal(ErrClosedWait)
    /\ UNCHANGED <<menu, ctxCancelled, turns, sent, loc, cyc, turnStart, acked>>

\* waitForEventTypeFromChan: case <-ctx.Done()
WaitTimeout ==
    /\ fpc = "waitAck"
    /\ Fatal(ErrTimeoutWait)
    /\ UNCHANGED <<menu, ctxCancelled, turns, sent, loc, cyc, turnStart, acked>>

\* requestTextResponse, then a fresh streamAssistantTextFromChan call
RequestTo(next) ==
    /\ \E sendOK \in BOOLEAN :
          IF sendOK
          THEN /\ sent' = Append(sent, ResponseCreateMsg)
               /\ fpc' = next
               /\ ferr' = ferr
               /\ respOpen' = TRUE
               /\ UNCHANGED pending
               /\ UNCHANGED readerVars
               /\ UNCHANGED chanVars
          ELSE /\ sent' = sent
               /\ Fatal(ErrWrite)
    /\ loc' = FreshCycle
    /\ cyc' = <<>>
    /\ UNCHANGED <<menu, ctxCancelled, turns, turnStart, acked>>

RequestResponse ==
    /\ fpc = "request1"
    /\ RequestTo("stream1")

RequestFollowUp ==
    /\ fpc = "request2"
    /\ RequestTo("stream2")

\* streamAssistantTextFromChan: case evt, ok := <-events with ok
StreamRecv ==
    /\ fpc \in Streaming
    /\ events # <<>>
    /\ cyc' = Append(cyc, Head(events))
    /\ \E sendOK \in BOOLEAN :
          LET r == StreamHandle(loc, Head(events), sendOK)
          IN  /\ loc' = r.loc
              /\ sent' = sent \o r.out
              /\ IF r.ret = "err"
                 THEN Fatal(r.err)
                 ELSE /\ events' = Tail(events)
                      /\ fpc' = IF r.ret = "ok"
                                THEN AfterStream(fpc, r.loc.needFollowUp)
                                ELSE fpc
                      /\ ferr' = ferr
                      /\ pending' = Tail(pending)
                      /\ respOpen' = (respOpen /\ Head(events).type # "response.done")
                      /\ UNCHANGED readerVars
                      /\ UNCHANGED <<errs, eventsClosed, errsClosed>>
    /\ UNCHANGED <<menu, ctxCancelled, turns, turnStart, acked>>

\* streamAssistantTextFromChan: the channel is closed and drained
StreamClosed ==
    /\ fpc \in Streaming
    /\ events = <<>>
    /\ eventsClosed
    /\ Fatal(ErrClosedStream)
    /\ UNCHANGED <<menu, ctxCancelled, turns, sent, loc, cyc, turnStart, acked>>

\* a slip: the response is requested again when the deadline expires
StreamTimeout_Retry ==
    /\ fpc \in Streaming
    /\ fpc' = IF fpc = "stream1" THEN "request1" ELSE "request2"
    /\ UNCHANGED <<menu, ctxCancelled, turns, sent, loc, ferr, cyc, turnStart, acked>>
    /\ UNCHANGED <<pending, respOpen>>
    /\ UNCHANGED readerVars
    /\ UNCHANGED chanVars

\* streamAssistantTextFromChan: case <-ctx.Done()
StreamTimeout ==
    /\ fpc \in Streaming
    /\ Fatal(ErrTimeoutStream)
    /\ UNCHANGED <<menu, ctxCancelled, turns, sent, loc, cyc, turnStart, acked>>

\* select { case err = <-errsCh: if err != nil { log.Fatalf }; default: }
Drain ==
    /\ fpc = "drain"
    /\ IF errs # <<>>
       THEN /\ Fatal(ErrReader(Head(errs)))
            /\ UNCHANGED <<loc, cyc>>
       ELSE /\ fpc' = "prompt"
            /\ ferr' = ferr
            /\ loc' = FreshCycle
            /\ cyc' = <<>>
            /\ UNCHANGED <<pending, respOpen>>
            /\ UNCHANGED readerVars
            /\ UNCHANGED chanVars
    /\ UNCHANGED <<menu, ctxCancelled, turns, sent, turnStart, acked>>

Foreground ==
    \/ UserInput
    \/ UserExit
    \/ StdinFail
    \/ WaitRecv
    \/ WaitClosed
    \/ WaitTimeout
    \/ RequestResponse
    \/ RequestFollowUp
    \/ StreamRecv
    \/ StreamClosed
    \/ StreamTimeout
    \/ Drain

Next == Reader \/ Foreground

Spec == Init /\ [][Next]_vars

\* Steps the Go scheduler and the clock guarantee: a goroutine that can run does
\* run, and a pending deadline expires.  The arrival of a frame, the failure of
\* the connection and the user's typing are not guaranteed.
ReaderSteps ==
    \/ ReaderSelect
    \/ ReaderReport
    \/ ReaderDecodeFail
    \/ ReaderEnqueue
    \/ ReaderCloseErrs
    \/ ReaderCloseEvents

MainSteps ==
    \/ WaitRecv
    \/ WaitClosed
    \/ WaitTimeout
    \/ RequestResponse
    \/ RequestFollowUp
    \/ StreamRecv
    \/ StreamClosed
    \/ StreamTimeout
    \/ Drain

FairSpec == Init /\ [][Next]_vars /\ WF_vars(ReaderSteps) /\ WF_vars(MainSteps)

\* The same program and fairness on the runs in which the remote service sends
\* text, events of other types, an error or frames that do not decode: what
\* ends a wait does not depend on which tool calls a response makes.
WaitInit == Init /\ menu \in {MenuText, MenuFail}

WaitSpec == WaitInit /\ [][Next]_vars /\ WF_vars(ReaderSteps) /\ WF_vars(MainSteps)

(***************************************************************************)
(* Reading the history of a response cycle.                                *)
(***************************************************************************)
TextDeltaType == "response.text.delta"
ArgDeltaType == "response.function_call_arguments.delta"
ArgsDoneType == "response.function_call_arguments.done"
Markers == {"response.text.done", "response.done"}

RECURSIVE Flatten(_)
Flatten(ss) == IF ss = <<>> THEN <<>> ELSE Head(ss) \o Flatten(Tail(ss))

\* the strings of the text deltas of a log, in order
TextDeltas(log) ==
    LET at == {i \in 1..Len(log) : log[i].type = TextDeltaType /\ log[i].delta.ok}
        RECURSIVE pick(_)
        pick(i) == IF i > Len(log) THEN <<>>
                   ELSE (IF i \in at THEN <<log[i].delta.s>> ELSE <<>>) \o pick(i + 1)
    IN  pick(1)

\* index of the last arguments.done of call id c in a log, 0 when there is none
LastDone(log, c) ==
    LET at == {i \in 1..Len(log) : log[i].type = ArgsDoneType /\ log[i].call_id = c}
    IN  IF at = {} THEN 0 ELSE CHOOSE i \in at : \A j \in at : j <= i

\* the argument fragments tagged c that a log delivers after c's last arguments.done
Fragments(log, c) ==
    LET from == LastDone(log, c)
        RECURSIVE pick(_)
        pick(i) == IF i > Len(log) THEN <<>>
                   ELSE (IF i > from /\ log[i].type = ArgDeltaType /\ log[i].call_id = c
                         THEN <<log[i].delta.s>> ELSE <<>>) \o pick(i + 1)
    IN  pick(1)

Front(log) == SubSeq(log, 1, Len(log) - 1)
Last(log) == log[Len(log)]

(***************************************************************************)
(* C1.  In one response cycle the accumulated text is the concatenation,   *)
(* in delivery order, of the text deltas received so far, whatever other   *)
(* events were received in between; this is the text returned at the       *)
(* terminal marker, where the cycle stops receiving.                       *)
(***************************************************************************)
C1_TextIsConcatOfDeltas ==
    /\ loc.full = Flatten(TextDeltas(cyc))
    /\ \A i \in 1..Len(cyc) : cyc[i].type \in Markers => i = Len(cyc)
    /\ (cyc # <<>> /\ Last(cyc).type \in Markers) => fpc \notin Streaming

\* a cycle returned at a marker after two different deltas with another event between
C1_Witness ==
    /\ fpc = "drain"
    /\ cyc # <<>>
    /\ Last(cyc).type \in Markers
    /\ loc.full = <<"H", "i">>
    /\ \E i \in 1..Len(cyc) : cyc[i].type = "session.updated"

(***************************************************************************)
(* C2.  When an arguments.done without an arguments value is received for  *)
(* call id C, the argument string parsed is the concatenation of C's       *)
(* fragments in delivery order, and the cycle does what a fresh cycle does *)
(* on a single arguments.done carrying that whole string: the same         *)
(* function_call_output is sent, or both fail.                             *)
(***************************************************************************)
C2_SplitEqualsWhole ==
    (cyc # <<>> /\ Last(cyc).type = ArgsDoneType /\ Last(cyc).arguments = <<>>) =>
        LET c == Last(cyc).call_id
            whole == Flatten(Fragments(Front(cyc), c))
            one == StreamHandle(FreshCycle, EvArgsDone(c, whole), TRUE)
        IN  /\ loc.argsJSON = whole
            /\ IF one.ret = "err"
               THEN fpc = "fatal" /\ ferr = one.err
               ELSE \/ fpc = "fatal" /\ ferr = ErrWrite
                    \/ /\ sent[Len(sent)] = one.out[1]
                       /\ sent[Len(sent)].call_id = c
                       /\ loc.needFollowUp

\* call_1's arguments came in two fragments and its output was sent
C2_Witness ==
    /\ fpc \in Streaming
    /\ Len(cyc) = 3
    /\ Last(cyc) = EvArgsDone("call_1", <<>>)
    /\ Len(Fragments(Front(cyc), "call_1")) = 2
    /\ sent[Len(sent)] = FunctionOutputMsg("call_1", <<"{\"result\": ", "12", "}">>)

(***************************************************************************)
(* C3.  At every point of a response cycle the buffer of each call id      *)
(* holds exactly the non-empty fragments tagged with that id, in delivery  *)
(* order, and nothing else; a delta with an empty call id or an empty text *)
(* creates no entry.                                                       *)
(***************************************************************************)
C3_BuffersDoNotMix ==
    fpc \in Streaming =>
        /\ DOMAIN loc.argBuf \subseteq CallIds
        /\ \A c \in CallIds :
              LET frags == Flatten(Fragments(cyc, c))
              IN  IF c \in DOMAIN loc.argBuf
                  THEN loc.argBuf[c] = frags /\ frags # <<>>
                  ELSE frags = <<>>

\* two call ids interleaved, with a delta of empty call id in between
C3_Witness ==
    /\ fpc \in Streaming
    /\ DOMAIN loc.argBuf = CallIds
    /\ loc.argBuf["call_1"] = <<LB>>
    /\ loc.argBuf["call_2"] = <<LB, RB>>
    /\ \E i \in 1..Len(cyc) : cyc[i].type = ArgDeltaType /\ cyc[i].call_id = ""
    /\ Last(cyc).call_id = "call_2"

(***************************************************************************)
(* C4.  When the acknowledgement wait or a response cycle receives an      *)
(* event of type "error", it fails in that very step with a server error   *)
(* that embeds the event; nothing is sent, the text returned is the text   *)
(* accumulated before (all of it already printed), and after the failure   *)
(* no event is received and nothing is sent.                               *)
(***************************************************************************)
C4_ServerErrorAborts ==
    [][ /\ ((WaitRecv \/ StreamRecv) /\ Head(events).type = "error") =>
              /\ fpc' = "fatal"
              /\ ferr'.msg = "server error"
              /\ ferr'.detail = MarshalEvent(Head(events))
              /\ sent' = sent
              /\ loc'.full = loc.full
              /\ loc'.needFollowUp = loc.needFollowUp
              /\ loc'.stdout = loc.stdout
              /\ loc.full # <<>> => loc.stdout = <<"Chatbot> ">> \o loc.full
        /\ fpc = "fatal" => (sent' = sent /\ ~WaitRecv /\ ~StreamRecv)
      ]_vars

\* a response cycle that had printed text died on a server error
C4_Witness ==
    /\ fpc = "fatal"
    /\ ferr.msg = "server error"
    /\ ferr.detail = MarshalEvent(EvError)
    /\ cyc # <<>>
    /\ Last(cyc) = EvError
    /\ loc.full = <<"H">>

(***************************************************************************)
(* C5.  With the events channel closed and drained, a pending wait or      *)
(* response cycle is never blocked and never succeeds: its receive fails   *)
(* with the channel-closed error, whose message is neither the server      *)
(* error's nor a timeout's; the only other way out is the deadline.        *)
(***************************************************************************)
ClosedAndDrained == fpc \in Waiting /\ events = <<>> /\ eventsClosed

TimeoutMsgs == {ErrTimeoutWait.msg, ErrTimeoutStream.msg}

C5_ClosedQueueFails ==
    /\ [](ClosedAndDrained => ENABLED (WaitClosed \/ StreamClosed))
    /\ [][ /\ (ClosedAndDrained /\ fpc' # fpc) =>
                 /\ fpc' = "fatal"
                 /\ ferr'.msg \in {ErrClosedWait.msg, ErrClosedStream.msg} \cup TimeoutMsgs
           /\ (WaitClosed \/ StreamClosed) =>
                 /\ ferr'.msg \notin TimeoutMsgs \cup {"server error", ""}
                 /\ ferr'.msg = IF fpc = "waitAck" THEN ErrClosedWait.msg
                                ELSE ErrClosedStream.msg
         ]_vars

\* a response cycle died on the closed channel
C5_Witness ==
    /\ fpc = "fatal"
    /\ ferr.msg = "events channel closed during stream"
    /\ cyc # <<>>

(***************************************************************************)
(* C6.  The messages of a turn that ran to its end are, in order: one      *)
(* conversation.item.create with the user text; one response.create, sent  *)
(* only after an item-created event was received; then a second            *)
(* response.create exactly when the first cycle sent a function_call_output*)
(* (which precedes it).  Never more than two response.create, and exactly  *)
(* one, with no output at all, when no tool was invoked.                   *)
(***************************************************************************)
TurnMsgs == SubSeq(sent, turnStart + 1, Len(sent))

IsResponseCreate(m) == m.type = "response.create"

IsOutput(m) == m.type = "conversation.item.create" /\ m.item = "function_call_output"

IsUserItem(m) == m.type = "conversation.item.create" /\ m.item = "message" /\ m.body \in Inputs

TurnCompleted == turns > 0 /\ fpc \in {"drain", "prompt", "exited"}

C6_TurnMessageOrder ==
    LET seg == TurnMsgs
        rc == {i \in 1..Len(seg) : IsResponseCreate(seg[i])}
        outs == {i \in 1..Len(seg) : IsOutput(seg[i])}
    IN  /\ (turns > 0 /\ rc # {}) => acked
        /\ TurnCompleted =>
              /\ Len(seg) >= 2
              /\ IsUserItem(seg[1])
              /\ IsResponseCreate(seg[2])
              /\ \A i \in 2..Len(seg) : i \in rc \cup outs
              /\ Cardinality(rc) \in {1, 2}
              /\ Cardinality(rc) = 2 <=> (\E o \in outs, r \in rc : 2 < o /\ o < r)
              /\ Cardinality(rc) = 1 => outs = {}

\* a turn with a tool call ran to its end: output, then the second response.create
C6_Witness ==
    /\ fpc = "drain"
    /\ Len(TurnMsgs) = 4
    /\ IsOutput(TurnMsgs[3])
    /\ IsResponseCreate(TurnMsgs[4])

(***************************************************************************)
(* C7.  An arguments payload with both required fields is accepted; a      *)
(* payload that is a JSON object but lacks a field the advertised schema   *)
(* requires is rejected: the cycle fails with the argument error and sends *)
(* no function_call_output for it.                                         *)
(***************************************************************************)
HasKey(s, k) == \E i \in 1..Len(s) : s[i] \in FieldToks /\ FieldKey(s[i]) = k

MissesRequired(s) == IsJSONObject(s) /\ \E k \in ToolRequired : ~HasKey(s, k)

C7_MissingFieldRejected ==
    (cyc # <<>> /\ Last(cyc).type = ArgsDoneType) =>
        /\ loc.argsJSON = ArgsFull => ferr # ErrBadArgs
        /\ MissesRequired(loc.argsJSON) =>
              /\ fpc = "fatal"
              /\ ferr = ErrBadArgs
              /\ ~(IsOutput(sent[Len(sent)]) /\ sent[Len(sent)].call_id = Last(cyc).call_id)

(***************************************************************************)
(* C8.  A decode error never terminates the session: main never dies of a  *)
(* reader error that is a decode error.                                    *)
(***************************************************************************)
C8_DecodeErrorNotFatal ==
    ~(fpc = "fatal" /\ ferr.msg = "reader error" /\ ferr.detail = <<ErrDecode.msg>>)

(***************************************************************************)
(* C9.  Once c.Read has failed or the reader has seen the cancelled        *)
(* context, the reader ends: it reports the error, closes errs and events, *)
(* whatever the two channels hold, for as long as the process lives; and   *)
(* it enqueues no event after the failure.                                 *)
(***************************************************************************)
ReaderFailed == rpc \in {"report", "closeErrs", "closeEvents", "done"}

ProcessEnded == fpc \in {"fatal", "exited"}

C9_ReaderTerminates ==
    /\ (rpc = "report") ~> ((rpc = "done" /\ errsClosed /\ eventsClosed) \/ ProcessEnded)
    /\ [][(ReaderFailed /\ ~ProcessEnded') => Len(events') <= Len(events)]_vars

(***************************************************************************)
(* C10.  On a frame that does not decode the reader puts one decode error  *)
(* on errs, nothing on events, and goes back to the top of its loop; a     *)
(* well-formed frame read afterwards is put on events, as any other.  The  *)
(* reader leaves its loop only after a failed read or a cancelled context. *)
(***************************************************************************)
ReaderMoves == rpc' \notin {rpc, "dead"}

C10_DecodeFailureContinues ==
    [][ /\ (rpc = "deliver" /\ ~rframe.json /\ ReaderMoves) =>
              /\ errs' = Append(errs, ErrDecode)
              /\ events' = events
              /\ rpc' = "select"
        /\ (rpc = "deliver" /\ rframe.json /\ ReaderMoves) =>
              /\ events' = Append(events, rframe.obj)
              /\ errs' = errs
              /\ rpc' = "select"
        /\ (rpc' = "closeErrs" /\ ReaderMoves) => rpc = "report"
        /\ (rpc' = "report" /\ ReaderMoves) => (rpc = "read" \/ ctxCancelled)
      ]_vars

\* a decode error is on errs and a frame read after it is on events
C10_Witness ==
    /\ decodeFails > 0
    /\ enqAfterFail > 0
    /\ errs # <<>>
    /\ errs[1] = ErrDecode
    /\ events # <<>>
    /\ rpc = "select"

(***************************************************************************)
(* C11.  The events the foreground dequeues are, in order, the well-formed *)
(* frames in the order c.Read returned them: every receive takes the       *)
(* oldest frame not yet dequeued, and the frames read and not yet dequeued *)
(* are exactly the queue followed by the frame the reader holds.  The      *)
(* queue never exceeds its capacity, and while it is full the reader keeps *)
(* its frame and waits; the queue only loses an event to a receive.        *)
(***************************************************************************)
InHand == IF rpc = "deliver" /\ rframe.json THEN <<rframe.obj>> ELSE <<>>

ReaderBlockedOnEvents == rpc = "deliver" /\ rframe.json /\ Len(events) = ChanCap

C11_EventsInWireOrder ==
    /\ [](Len(events) <= ChanCap)
    /\ [](pending = events \o InHand)
    /\ [][ /\ (WaitRecv \/ StreamRecv) => Head(events) = Head(pending)
           /\ (ReaderBlockedOnEvents /\ rpc' # "dead") =>
                 /\ rpc' = "deliver"
                 /\ rframe' = rframe
                 /\ events' \in {events, Tail(events)}
           /\ ~ENABLED ReaderEnqueue \/ ~ReaderBlockedOnEvents
         ]_vars

\* the reader waits with a frame in hand on a full queue of two different events,
\* after the response cycle has dequeued others
C11_Witness ==
    /\ ReaderBlockedOnEvents
    /\ events[1] # events[2]
    /\ rframe.obj # events[2]
    /\ fpc \in Streaming
    /\ Len(cyc) >= 1

(***************************************************************************)
(* C12.  Every foreground wait ends.  A wait that is not ended by a        *)
(* received event or by the closed channel ends with its own timeout       *)
(* error, also after events it does not handle were received; and the      *)
(* timeout, as any failure, ends the session: main stays dead, sends       *)
(* nothing more and starts no turn.                                        *)
(***************************************************************************)
TimeoutOf(pc) == IF pc = "waitAck" THEN ErrTimeoutWait ELSE ErrTimeoutStream

EndedByQueue == WaitRecv \/ StreamRecv \/ WaitClosed \/ StreamClosed

C12_WaitsTimeOut ==
    /\ []<>(fpc \notin Waiting)
    /\ [][ /\ (fpc \in Waiting /\ fpc' # fpc /\ ~EndedByQueue) =>
                 /\ fpc' = "fatal"
                 /\ ferr' = TimeoutOf(fpc)
           /\ fpc = "fatal" => (fpc' = "fatal" /\ sent' = sent /\ turns' = turns)
         ]_vars

\* a response cycle timed out after receiving only events it does not handle
C12_Witness ==
    /\ fpc = "fatal"
    /\ ferr = ErrTimeoutStream
    /\ Len(cyc) >= 2
    /\ \A i \in 1..Len(cyc) : cyc[i] = EvUnknown

(***************************************************************************)
(* C13.  A step of a turn that fails (a failed send, a failed wait, a      *)
(* failed response cycle, an error found on errs at the end of the turn)   *)
(* sends nothing and ends main; once an error has ended main, nothing is   *)
(* sent, no step is taken again and no turn is started.                    *)
(***************************************************************************)
C13_FailureEndsSession ==
    [][ /\ ferr' # ferr => (fpc' = "fatal" /\ sent' = sent)
        /\ ferr # NoErr =>
              /\ fpc' = fpc
              /\ ferr' = ferr
              /\ sent' = sent
              /\ turns' = turns
      ]_vars

\* the first turn ended on an error left on errs, with a further turn still allowed
C13_Witness ==
    /\ fpc = "fatal"
    /\ ferr.msg = "reader error"
    /\ turns = 1
    /\ Len(sent) >= 3

(***************************************************************************)
(* C14.  An event of a type the consumer has no case for is dequeued and   *)
(* dropped: the wait keeps waiting and the response cycle keeps streaming, *)
(* neither fails, nothing is sent, and the accumulated text, the argument  *)
(* buffers, the follow-up flag and the terminal output are unchanged.      *)
(***************************************************************************)
WaitHandled == {"error", AckType}

StreamHandled == {"error", TextDeltaType, ArgDeltaType, ArgsDoneType} \cup Markers

C14_UnknownEventsIgnored ==
    [][ /\ (WaitRecv /\ Head(events).type \notin WaitHandled) =>
              /\ fpc' = "waitAck"
              /\ events' = Tail(events)
              /\ ferr' = ferr
              /\ sent' = sent
              /\ loc' = loc
        /\ (StreamRecv /\ Head(events).type \notin StreamHandled) =>
              /\ fpc' = fpc
              /\ events' = Tail(events)
              /\ ferr' = ferr
              /\ sent' = sent
              /\ loc' = loc
      ]_vars

\* the only frame read so far is a session.updated event; the wait of the first
\* turn has dequeued it and is still waiting
C14_Witness ==
    /\ fpc = "waitAck"
    /\ turns = 1
    /\ nframes = 1
    /\ rframe = Frame(EvUnknown)
    /\ rpc \in {"select", "read"}
    /\ events = <<>>
    /\ pending = <<>>

(***************************************************************************)
(* C15.  In a response cycle the function_call_output messages sent are,   *)
(* one for one and in the same order, the arguments.done events received:  *)
(* each output carries the call id of its event, whatever the order of the *)
(* calls' deltas, and it is sent in the step that receives the event,      *)
(* before the next event is received.                                      *)
(***************************************************************************)
\* index in sent of the last response.create, 0 when there is none
LastRequest ==
    LET at == {i \in 1..Len(sent) : IsResponseCreate(sent[i])}
    IN  IF at = {} THEN 0 ELSE CHOOSE i \in at : \A j \in at : j <= i

\* what was sent since the last response.create
CycleOuts == SubSeq(sent, LastRequest + 1, Len(sent))

IsArgsDone(e) == e.type = ArgsDoneType

DoneEvents(log) == SelectSeq(log, IsArgsDone)

InCycle == fpc \in Streaming \cup {"request2", "drain"}

C15_OutputsFollowDoneOrder ==
    /\ [](InCycle =>
            LET outs == CycleOuts
                dones == DoneEvents(cyc)
            IN  /\ Len(outs) = Len(dones)
                /\ \A i \in 1..Len(outs) :
                      /\ IsOutput(outs[i])
                      /\ outs[i].call_id = dones[i].call_id
                      /\ dones[i].arguments # <<>> =>
                            outs[i].body = FormatResult(multiply(FieldValue(dones[i].arguments, "a"),
                                                                 FieldValue(dones[i].arguments, "b"))))
    /\ [][ (StreamRecv /\ IsArgsDone(Head(events)) /\ fpc' # "fatal") =>
              /\ Len(sent') = Len(sent) + 1
              /\ IsOutput(sent'[Len(sent')])
              /\ sent'[Len(sent')].call_id = Head(events).call_id
              /\ events' = Tail(events)
          ]_vars

\* call_1's delta came first, call_2's arguments.done came first: outputs for
\* call_2, then call_1
C15_Witness ==
    /\ fpc \in Streaming
    /\ Len(cyc) = 4
    /\ cyc[1] = EvArgDelta("call_1", <<LB, RB>>)
    /\ cyc[2] = EvArgDelta("call_2", ArgsFull)
    /\ cyc[3] = EvArgsDone("call_2", <<>>)
    /\ cyc[4] = EvArgsDone("call_1", <<>>)
    /\ CycleOuts = << FunctionOutputMsg("call_2", <<"{\"result\": ", "12", "}">>),
                      FunctionOutputMsg("call_1", <<"{\"result\": ", "0", "}">>) >>

(***************************************************************************)
(* C16.  The argument text parsed for an arguments.done event is the       *)
(* event's own arguments value when it has one, whatever the buffer of its *)
(* call id holds, and the buffered fragments of that call id otherwise.    *)
(* The follow-up flag is set exactly when an output has been sent in the   *)
(* cycle: a step that sends nothing leaves the flag as it was.             *)
(***************************************************************************)
C16_ExplicitArgumentsPreferred ==
    /\ []((cyc # <<>> /\ IsArgsDone(Last(cyc))) =>
            loc.argsJSON = IF Last(cyc).arguments # <<>>
                           THEN Last(cyc).arguments
                           ELSE Flatten(Fragments(Front(cyc), Last(cyc).call_id)))
    /\ [](InCycle => (loc.needFollowUp <=> CycleOuts # <<>>))
    /\ [][(StreamRecv /\ sent' = sent) => loc'.needFollowUp = loc.needFollowUp]_vars

\* call_1's buffer held an unfinished fragment when its arguments.done arrived
\* carrying the whole payload: the payload was parsed and the output sent
C16_Witness ==
    /\ fpc \in Streaming
    /\ Len(cyc) >= 2
    /\ Last(cyc) = EvArgsDone("call_1", ArgsFull)
    /\ Flatten(Fragments(Front(cyc), "call_1")) = <<LB, A3, CM>>
    /\ loc.argsJSON = ArgsFull
    /\ loc.needFollowUp
    /\ sent[Len(sent)] = FunctionOutputMsg("call_1", <<"{\"result\": ", "12", "}">>)

(***************************************************************************)
(* C17.  The buffer has an entry for call id C only from C's first         *)
(* non-empty delta to the dispatch of C's arguments.done: dispatching C    *)
(* removes C's entry, whether the text came from the buffer or from the    *)
(* event, and touches no other entry; a delta for C after that starts a    *)
(* new entry holding that delta alone; and every response cycle starts     *)
(* with an empty buffer.                                                   *)
(***************************************************************************)
\* a non-empty delta for c was received after c's last arguments.done
HasLiveDelta(log, c) ==
    \E i \in (LastDone(log, c) + 1)..Len(log) :
        log[i].type = ArgDeltaType /\ log[i].call_id = c /\ log[i].delta.s # <<>>

C17_BufferLifecycle ==
    /\ [](fpc \in Streaming =>
            \A c \in CallIds \cup {""} :
                /\ c \in DOMAIN loc.argBuf <=> (c # "" /\ HasLiveDelta(cyc, c))
                /\ c \in DOMAIN loc.argBuf => loc.argBuf[c] = Flatten(Fragments(cyc, c)))
    /\ [](cyc = <<>> => loc.argBuf = EmptyBuf)
    /\ [][ /\ (StreamRecv /\ IsArgsDone(Head(events)) /\ fpc' # "fatal") =>
                 /\ Head(events).call_id \notin DOMAIN loc'.argBuf
                 /\ \A c \in DOMAIN loc.argBuf \ {Head(events).call_id} :
                       c \in DOMAIN loc'.argBuf /\ loc'.argBuf[c] = loc.argBuf[c]
           /\ (RequestResponse \/ RequestFollowUp) => loc'.argBuf = EmptyBuf
         ]_vars

\* call_1 was dispatched from the value on its event while its buffer held a
\* fragment; a later delta for call_1 is alone in the new entry
C17_Witness ==
    /\ fpc \in Streaming
    /\ cyc = << EvArgDelta("call_1", <<LB, A3, CM>>), EvArgsDone("call_1", ArgsFull),
                EvArgDelta("call_1", <<B4, RB>>) >>
    /\ DOMAIN loc.argBuf = {"call_1"}
    /\ loc.argBuf["call_1"] = <<B4, RB>>

(***************************************************************************)
(* C18.  The wait of a turn returns success only on receiving the          *)
(* item-created event of the user message sent in that turn: an            *)
(* item-created event that names another item (the message of an earlier   *)
(* turn, a function_call_output) does not end the wait; every event        *)
(* received before is dropped without effect.                              *)
(***************************************************************************)
NamesItem(evt) == "item" \in DOMAIN evt

\* the items the program has created so far
ItemsSent ==
    {UserItem(n) : n \in 1..turns}
    \cup {OutputItem(n) : n \in 1..Cardinality({i \in 1..Len(sent) : IsOutput(sent[i])})}

C18_AckMatchesItem ==
    [][ /\ (WaitRecv /\ fpc' = "request1") =>
              /\ Head(events).type = AckType
              /\ (NamesItem(Head(events)) /\ Head(events).item \in ItemsSent) =>
                    Head(events).item = UserItem(turns)
        /\ (WaitRecv /\ fpc' = "waitAck") =>
              /\ sent' = sent
              /\ loc' = loc
              /\ ferr' = ferr
      ]_vars

(***************************************************************************)
(* C19.  When the argument text of an arguments.done event does not parse  *)
(* (also when the event has no arguments value and nothing was buffered    *)
(* for its call id), the cycle fails with the argument error; and however  *)
(* the dispatch fails, on the parse or on the send, nothing is sent, the   *)
(* follow-up flag and the accumulated text keep their values, and the      *)
(* cycle receives no further event.  A dispatch that does not fail had     *)
(* text that parses.                                                       *)
(***************************************************************************)
\* the argument text of the arguments.done event at the head of the queue
HeadArgs ==
    IF Head(events).arguments # <<>> THEN Head(events).arguments
    ELSE Flatten(Fragments(cyc, Head(events).call_id))

C19_FailedDispatchFailsCycle ==
    [][ /\ (StreamRecv /\ IsArgsDone(Head(events))) =>
              /\ ~IsJSONObject(HeadArgs) => (fpc' = "fatal" /\ ferr' = ErrBadArgs)
              /\ fpc' # "fatal" => IsJSONObject(HeadArgs)
              /\ fpc' = "fatal" =>
                    /\ ferr' \in {ErrBadArgs, ErrWrite}
                    /\ sent' = sent
                    /\ loc'.needFollowUp = loc.needFollowUp
                    /\ loc'.full = loc.full
                    /\ loc'.full = Flatten(TextDeltas(cyc))
        /\ (fpc = "fatal" /\ ferr \in {ErrBadArgs, ErrWrite}) => (cyc' = cyc /\ sent' = sent)
      ]_vars

\* after some text, an arguments.done without a value for a call id with nothing
\* buffered: the cycle failed on the empty text
C19_Witness ==
    /\ fpc = "fatal"
    /\ ferr = ErrBadArgs
    /\ Len(cyc) >= 2
    /\ Last(cyc) = EvArgsDone("call_1", <<>>)
    /\ Fragments(Front(cyc), "call_1") = <<>>
    /\ loc.argsJSON = <<>>
    /\ loc.full = <<"H">>
    /\ ~loc.needFollowUp
    /\ ~IsOutput(sent[Len(sent)])

(***************************************************************************)
(* C20.  An arguments.done event with arguments that parse, delivered      *)
(* while a requested response has not reached its response.done, is        *)
(* dispatched within the turn: it is not dropped by an acknowledgement     *)
(* wait, it is not left on the queue when the turn ends, and every         *)
(* function_call_output of a turn is followed, before the turn ends, by a  *)
(* response.create.                                                        *)
(***************************************************************************)
Dispatchable(evt) == IsArgsDone(evt) /\ IsJSONObject(evt.arguments)

C20_EveryDoneDispatched ==
    /\ [][ /\ (WaitRecv /\ respOpen) => ~Dispatchable(Head(events))
           /\ (Drain /\ fpc' = "prompt" /\ respOpen) =>
                 \A i \in 1..Len(events) : ~Dispatchable(events[i])
         ]_vars
    /\ [](fpc = "drain" =>
            \A o \in 1..Len(TurnMsgs) :
                IsOutput(TurnMsgs[o]) =>
                    \E r \in (o + 1)..Len(TurnMsgs) : IsResponseCreate(TurnMsgs[r]))

====
